---- MODULE Spec2Model ----
(***************************************************************************)
(* Model of option_tree in bTreeOptionCalc.py: the forward construction of *)
(* the stock-price lattice and the backward induction of the option        *)
(* values.  Every loop iteration of the function is one action.            *)
(*                                                                         *)
(* Numbers are exact rationals <<n, d>> in lowest terms with d > 0, so     *)
(* equality of numbers is equality of tuples.  The rounding, underflow and *)
(* overflow of Python's binary64 floats are not part of the model.         *)
(***************************************************************************)
EXTENDS Integers, Sequences, FiniteSets, TLC

\* Largest number of time steps explored.
MaxSteps == 2

----------------------------------------------------------------------------
\* Rational arithmetic (Python's float operators +, -, *, /, <)

Abs(n) == IF n < 0 THEN -n ELSE n

RECURSIVE GCD(_, _)
GCD(a, b) == IF b = 0 THEN a ELSE GCD(b, a % b)

Norm(n, d) ==
    LET g == GCD(Abs(n), Abs(d))
    IN  IF d < 0 THEN <<(-n) \div g, (-d) \div g>> ELSE <<n \div g, d \div g>>

Rat(n) == <<n, 1>>
Zero == Rat(0)
One == Rat(1)

RNeg(a) == <<-a[1], a[2]>>

RAdd(a, b) ==
    LET g == GCD(a[2], b[2])
    IN  Norm(a[1] * (b[2] \div g) + b[1] * (a[2] \div g), (a[2] \div g) * b[2])

RSub(a, b) == RAdd(a, RNeg(b))

RMul(a, b) ==
    LET g1 == GCD(Abs(a[1]), b[2])
        g2 == GCD(Abs(b[1]), a[2])
    IN  IF a[1] = 0 \/ b[1] = 0 THEN Zero
        ELSE <<(a[1] \div g1) * (b[1] \div g2), (a[2] \div g2) * (b[2] \div g1)>>

\* b is not zero
RDiv(a, b) ==
    RMul(a, IF b[1] < 0 THEN <<-b[2], -b[1]>> ELSE <<b[2], b[1]>>)

RLt(a, b) == a[1] * b[2] < b[1] * a[2]

\* x ** n for an integer n >= 0 (0 ** 0 is 1, as in Python)
RECURSIVE Pow(_, _)
Pow(x, n) == IF n = 0 THEN One ELSE RMul(x, Pow(x, n - 1))

\* math.exp, approximated by the Taylor polynomial of degree 3 for x >= 0 and
\* by its reciprocal for x < 0 (so that Exp is positive and Exp(-x) = 1/Exp(x))
ExpPoly(x) ==
    RAdd(One, RAdd(x, RAdd(RDiv(RMul(x, x), Rat(2)),
                           RDiv(RMul(x, RMul(x, x)), Rat(6)))))

Exp(x) == IF RLt(x, Zero) THEN RDiv(One, ExpPoly(RNeg(x))) ELSE ExpPoly(x)

\* max(0, x)
Max0(x) == IF RLt(Zero, x) THEN x ELSE Zero

----------------------------------------------------------------------------
\* Arguments of option_tree

StockPrices == {Rat(-1), Rat(1), Rat(4)}
ExPrices == {Rat(2), Rat(3)}
Upticks == {Rat(3), Rat(2), Rat(1), Rat(0), Rat(-1)}
Downticks == {<<1, 2>>, <<1, 3>>, Rat(1), Rat(0), Rat(-1)}
RiskFreePcts == {Rat(-100), Rat(0), Rat(100)}
DeltaTimeSteps == {Rat(1), Rat(2)}
TimeSteps == -1 .. MaxSteps

\* A local that has not been assigned yet, and the absence of a return value
Unset == <<>>

VARIABLES
    pc,               \* position in option_tree
    stock_price, ex_price, uptick, downtick,
    risk_free_pct, time_steps, delta_time_step,
    risk_free_rate, discount_factor, e, p,
    stock_tree, option_tree,
    step, j,          \* loop variables
    stdout,           \* the printed root value
    result,           \* the returned pair of grids
    error,            \* the exception that left option_tree
    stock_writes,     \* history: number of assignments to stock_tree[s][k]
    option_writes     \* history: number of assignments to option_tree[s][k]

args == <<stock_price, ex_price, uptick, downtick,
          risk_free_pct, time_steps, delta_time_step>>
locals == <<risk_free_rate, discount_factor, e, p>>
grids == <<stock_tree, option_tree, stock_writes, option_writes>>
vars == <<pc, args, locals, grids, step, j, stdout, result, error>>

Init ==
    /\ pc = "params"
    /\ stock_price \in StockPrices
    /\ ex_price \in ExPrices
    /\ uptick \in Upticks
    /\ downtick \in Downticks
    /\ risk_free_pct \in RiskFreePcts
    /\ time_steps \in TimeSteps
    /\ delta_time_step \in DeltaTimeSteps
    /\ risk_free_rate = Unset
    /\ discount_factor = Unset
    /\ e = Unset
    /\ p = Unset
    /\ stock_tree = Unset
    /\ option_tree = Unset
    /\ stock_writes = Unset
    /\ option_writes = Unset
    /\ step = 0
    /\ j = 0
    /\ stdout = Unset
    /\ result = Unset
    /\ error = "none"

----------------------------------------------------------------------------
\* Lines 41-44

RiskFreeRate(pct) == RDiv(pct, Rat(100))
DiscountFactor(rate, dt) == Exp(RNeg(RMul(rate, dt)))
GrowthFactor(rate, dt) == Exp(RMul(rate, dt))
RiskNeutralP(ee, u, d) == RDiv(RSub(ee, d), RSub(u, d))

\* the float division of line 44 raises ZeroDivisionError
DivisorIsZero(u, d) == RSub(u, d) = Zero

ComputeParams ==
    /\ pc = "params"
    /\ ~DivisorIsZero(uptick, downtick)
    /\ risk_free_rate' = RiskFreeRate(risk_free_pct)
    /\ discount_factor' = DiscountFactor(RiskFreeRate(risk_free_pct), delta_time_step)
    /\ e' = GrowthFactor(RiskFreeRate(risk_free_pct), delta_time_step)
    /\ p' = RiskNeutralP(GrowthFactor(RiskFreeRate(risk_free_pct), delta_time_step),
                         uptick, downtick)
    /\ pc' = "alloc"
    /\ UNCHANGED <<args, grids, step, j, stdout, result, error>>

ZeroDivision ==
    /\ pc = "params"
    /\ DivisorIsZero(uptick, downtick)
    /\ risk_free_rate' = RiskFreeRate(risk_free_pct)
    /\ discount_factor' = DiscountFactor(RiskFreeRate(risk_free_pct), delta_time_step)
    /\ e' = GrowthFactor(RiskFreeRate(risk_free_pct), delta_time_step)
    /\ error' = "ZeroDivisionError"
    /\ pc' = "raised"
    /\ UNCHANGED <<args, p, grids, step, j, stdout, result>>

----------------------------------------------------------------------------
\* Lines 46-47

\* every row as long as the last one
NewGridSquare(n) == [s \in 0 .. n |-> [k \in 0 .. n |-> Zero]]

\* [[0 for _ in range(step + 1)] for step in range(time_steps + 1)]
NewGrid(n) == [s \in 0 .. n |-> [k \in 0 .. s |-> Zero]]
NoWrites(n) == [s \in 0 .. n |-> [k \in 0 .. s |-> 0]]

Allocate ==
    /\ pc = "alloc"
    /\ stock_tree' = NewGrid(time_steps)
    /\ option_tree' = NewGrid(time_steps)
    /\ stock_writes' = NoWrites(time_steps)
    /\ option_writes' = NoWrites(time_steps)
    /\ step' = 0
    /\ j' = 0
    /\ pc' = "stock"
    /\ UNCHANGED <<args, locals, stdout, result, error>>

----------------------------------------------------------------------------
\* Lines 49-51

\* the exponent of uptick off by one
StockValueOffByOne(s, k) ==
    RMul(RMul(stock_price, Pow(uptick, k + 1)), Pow(downtick, s - k))

\* the exponents of uptick and downtick exchanged
StockValueSwapped(s, k) ==
    RMul(RMul(stock_price, Pow(uptick, s - k)), Pow(downtick, k))

StockValue(s, k) ==
    RMul(RMul(stock_price, Pow(uptick, k)), Pow(downtick, s - k))

StockNode ==
    /\ pc = "stock"
    /\ step <= time_steps
    /\ stock_tree' = [stock_tree EXCEPT ![step][j] = StockValue(step, j)]
    /\ stock_writes' = [stock_writes EXCEPT ![step][j] = @ + 1]
    /\ IF j < step
         THEN j' = j + 1 /\ step' = step
         ELSE j' = 0 /\ step' = step + 1
    /\ UNCHANGED <<pc, args, locals, option_tree, option_writes,
                   stdout, result, error>>

StockDone ==
    /\ pc = "stock"
    /\ step > time_steps
    /\ pc' = "terminal"
    /\ j' = 0
    /\ UNCHANGED <<args, locals, grids, step, stdout, result, error>>

----------------------------------------------------------------------------
\* Lines 53-54

\* the payoff of a put
PayoffPut(price, strike) == Max0(RSub(strike, price))

Payoff(price, strike) == Max0(RSub(price, strike))

TerminalNode ==
    /\ pc = "terminal"
    /\ j <= time_steps
    /\ option_tree' = [option_tree EXCEPT
                         ![time_steps][j] = Payoff(stock_tree[time_steps][j], ex_price)]
    /\ option_writes' = [option_writes EXCEPT ![time_steps][j] = @ + 1]
    /\ j' = j + 1
    /\ UNCHANGED <<pc, args, locals, stock_tree, stock_writes, step,
                   stdout, result, error>>

TerminalDone ==
    /\ pc = "terminal"
    /\ j > time_steps
    /\ pc' = "induct"
    /\ step' = time_steps - 1
    /\ j' = 0
    /\ UNCHANGED <<args, locals, grids, stdout, result, error>>

----------------------------------------------------------------------------
\* Lines 56-61

ExpectedValue(up_value, down_value) ==
    RAdd(RMul(p, up_value), RMul(RSub(One, p), down_value))

\* the discounted expectation compared with the value of exercising now
NodeValueEarlyExercise(up_value, down_value) ==
    LET continuation == RMul(discount_factor, ExpectedValue(up_value, down_value))
        intrinsic == RSub(stock_tree[step][j], ex_price)
    IN  Max0(IF RLt(continuation, intrinsic) THEN intrinsic ELSE continuation)

\* the discounted expectation without the floor at 0
NodeValueUnclamped(up_value, down_value) ==
    RMul(discount_factor, ExpectedValue(up_value, down_value))

NodeValue(up_value, down_value) ==
    Max0(RMul(discount_factor, ExpectedValue(up_value, down_value)))

\* the value stored into the row it was read from
TargetRowBelow(s) == s + 1

\* the row the value computed for (s, k) is stored in
TargetRow(s) == s

InductNode ==
    /\ pc = "induct"
    /\ step >= 0
    /\ option_tree' = [option_tree EXCEPT ![TargetRow(step)][j] =
                         NodeValue(option_tree[step + 1][j + 1],
                                   option_tree[step + 1][j])]
    /\ option_writes' = [option_writes EXCEPT ![TargetRow(step)][j] = @ + 1]
    /\ IF j < step
         THEN j' = j + 1 /\ step' = step
         ELSE j' = 0 /\ step' = step - 1
    /\ UNCHANGED <<pc, args, locals, stock_tree, stock_writes,
                   stdout, result, error>>

InductDone ==
    /\ pc = "induct"
    /\ step < 0
    /\ pc' = "print"
    /\ UNCHANGED <<args, locals, grids, step, j, stdout, result, error>>

----------------------------------------------------------------------------
\* Lines 63-64

\* option_tree[0][0] exists
HasRoot(grid) == 0 \in DOMAIN grid

PrintRoot ==
    /\ pc = "print"
    /\ HasRoot(option_tree)
    /\ stdout' = option_tree[0][0]
    /\ pc' = "return"
    /\ UNCHANGED <<args, locals, grids, step, j, result, error>>

PrintIndexError ==
    /\ pc = "print"
    /\ ~HasRoot(option_tree)
    /\ error' = "IndexError"
    /\ pc' = "raised"
    /\ UNCHANGED <<args, locals, grids, step, j, stdout, result>>

Return ==
    /\ pc = "return"
    /\ result' = <<stock_tree, option_tree>>
    /\ pc' = "done"
    /\ UNCHANGED <<args, locals, grids, step, j, stdout, error>>

----------------------------------------------------------------------------

Next ==
    \/ ComputeParams
    \/ ZeroDivision
    \/ Allocate
    \/ StockNode
    \/ StockDone
    \/ TerminalNode
    \/ TerminalDone
    \/ InductNode
    \/ InductDone
    \/ PrintRoot
    \/ PrintIndexError
    \/ Return

Spec == Init /\ [][Next]_vars

----------------------------------------------------------------------------
\* Properties

RLe(a, b) == ~RLt(b, a)

\* S0 > 0 and u > 1 > d > 0
ValidLattice ==
    /\ RLt(Zero, stock_price)
    /\ RLt(One, uptick)
    /\ RLt(downtick, One)
    /\ RLt(Zero, downtick)

\* the nodes of a triangular grid of n steps
Nodes(n) == {sk \in (0 .. n) \X (0 .. n) : sk[2] <= sk[1]}

\* DF and p as functions of the arguments alone
ArgDF == Exp(RNeg(RMul(RDiv(risk_free_pct, Rat(100)), delta_time_step)))
ArgP ==
    RDiv(RSub(Exp(RMul(RDiv(risk_free_pct, Rat(100)), delta_time_step)), downtick),
         RSub(uptick, downtick))

\* the discounted risk-neutral expectation of the two children of (s, k)
Continuation(value, s, k) ==
    RMul(ArgDF, RAdd(RMul(ArgP, value[s + 1][k + 1]),
                     RMul(RSub(One, ArgP), value[s + 1][k])))

\* C1: in the returned value grid every interior node (step < N) equals
\* max(0, DF * (p * value(step+1, j+1) + (1-p) * value(step+1, j))), with
\* DF = exp(-r*dt) and p = (exp(r*dt) - d) / (u - d); the node's intrinsic
\* value price(step, j) - K plays no part.
C1_BackwardInduction ==
    pc = "done" =>
        \A sk \in Nodes(time_steps - 1) :
            result[2][sk[1]][sk[2]] = Max0(Continuation(result[2], sk[1], sk[2]))

\* C1 witness: a returned grid of at least two steps with a positive root
\* and an interior node worth less than its immediate exercise.
C1_Witness ==
    /\ pc = "done"
    /\ time_steps >= 2
    /\ RLt(Zero, result[2][0][0])
    /\ \E sk \in Nodes(time_steps - 1) :
          RLt(result[2][sk[1]][sk[2]], RSub(result[1][sk[1]][sk[2]], ex_price))

\* C2: the terminal row of the returned value grid is the call payoff of the
\* terminal row of the returned price grid: value(N, j) = max(0, price(N, j) - K).
C2_TerminalPayoff ==
    pc = "done" =>
        \A k \in 0 .. time_steps :
            result[2][time_steps][k] =
                (IF RLt(ex_price, result[1][time_steps][k])
                   THEN RSub(result[1][time_steps][k], ex_price) ELSE Zero)

\* C2 witness: a returned grid whose terminal row has a node in the money and
\* a node out of the money.
C2_Witness ==
    /\ pc = "done"
    /\ time_steps >= 1
    /\ \E k \in 0 .. time_steps : RLt(Zero, result[2][time_steps][k])
    /\ \E k \in 0 .. time_steps :
          /\ result[2][time_steps][k] = Zero
          /\ RLt(result[1][time_steps][k], ex_price)

\* C3: every entry of the returned value grid is >= 0.
C3_NonNegative ==
    pc = "done" =>
        \A sk \in Nodes(time_steps) : RLe(Zero, result[2][sk[1]][sk[2]])

\* C3 witness: a returned grid with an interior node whose discounted
\* expectation is negative and whose value is 0.
C3_Witness ==
    /\ pc = "done"
    /\ \E sk \in Nodes(time_steps - 1) :
          /\ RLt(Continuation(result[2], sk[1], sk[2]), Zero)
          /\ result[2][sk[1]][sk[2]] = Zero

\* C4: the returned price grid and value grid both have exactly N+1 rows and
\* row step has exactly step+1 entries.
C4_TriangularShape ==
    pc = "done" =>
        \A g \in 1 .. 2 :
            /\ DOMAIN result[g] = 0 .. time_steps
            /\ \A s \in 0 .. time_steps : DOMAIN result[g][s] = 0 .. s

\* C4 witness: grids of the largest step count are returned.
C4_Witness ==
    /\ pc = "done"
    /\ time_steps >= 2
    /\ Cardinality(DOMAIN result[1][time_steps]) = time_steps + 1

\* C8: with N = 0 the returned price grid is the single node S0, the returned
\* value grid is the single node max(0, S0 - K), and that node was assigned
\* once, by the terminal payoff, never by the backward induction.
C8_ZeroSteps ==
    (pc = "done" /\ time_steps = 0) =>
        /\ DOMAIN result[1] = {0}
        /\ DOMAIN result[1][0] = {0}
        /\ result[1][0][0] = stock_price
        /\ DOMAIN result[2] = {0}
        /\ DOMAIN result[2][0] = {0}
        /\ result[2][0][0] =
              (IF RLt(ex_price, stock_price) THEN RSub(stock_price, ex_price) ELSE Zero)
        /\ option_writes[0][0] = 1
        /\ stdout = result[2][0][0]

\* C8 witness: N = 0 returns, with S0 above K and with upticks and downticks
\* whose product is not 1.
C8_Witness ==
    /\ pc = "done"
    /\ time_steps = 0
    /\ RLt(ex_price, stock_price)
    /\ RMul(uptick, downtick) # One

Inducting == pc = "induct" /\ step >= 0

\* C10: when value(step, j) is computed every entry of row step+1 has been
\* assigned and the price grid is complete; an entry of either grid that has
\* been assigned is never changed or assigned again; and at the return every
\* entry of both grids has been assigned exactly once.
C10_LevelSynchronous ==
    [][ /\ Inducting =>
              /\ \A k \in 0 .. step + 1 : option_writes[step + 1][k] = 1
              /\ \A sk \in Nodes(time_steps) : stock_writes[sk[1]][sk[2]] = 1
              /\ option_writes[step][j] = 0
        /\ \A s \in DOMAIN option_writes : \A k \in DOMAIN option_writes[s] :
              option_writes[s][k] >= 1 =>
                  /\ option_tree'[s][k] = option_tree[s][k]
                  /\ option_writes'[s][k] = option_writes[s][k]
        /\ \A s \in DOMAIN stock_writes : \A k \in DOMAIN stock_writes[s] :
              stock_writes[s][k] >= 1 =>
                  /\ stock_tree'[s][k] = stock_tree[s][k]
                  /\ stock_writes'[s][k] = stock_writes[s][k]
        /\ pc' = "done" =>
              /\ \A sk \in Nodes(time_steps) :
                    /\ option_writes'[sk[1]][sk[2]] = 1
                    /\ stock_writes'[sk[1]][sk[2]] = 1
              /\ result' = <<stock_tree, option_tree>>
      ]_vars

\* C10 witness: the backward induction is at the last node of a row below
\* the terminal row, with the row above it assigned.
C10_Witness ==
    /\ Inducting
    /\ step = time_steps - 2
    /\ j = step
    /\ \A k \in 0 .. step + 1 : option_writes[step + 1][k] = 1

\* the lattice is degenerate
Degenerate == uptick = downtick

\* C5: when u = d (here with u > 0 and N >= 0, so that nothing else is wrong
\* with the arguments) pricing fails with a ValidationError before the
\* induction starts and returns no grid.
C5_DegenerateValidationError ==
    (Degenerate /\ RLt(Zero, uptick) /\ time_steps >= 0 /\ pc # "params") =>
        /\ pc = "raised"
        /\ error = "ValidationError"
        /\ option_tree = Unset
        /\ result = Unset

\* the risk-neutral probability has been computed and is outside [0, 1]
Arbitrage == p # Unset /\ (RLt(p, Zero) \/ RLt(One, p))

\* C6: when the computed p is outside [0, 1] (here with S0 > 0, u > 1 > d > 0
\* and N >= 0, so that nothing else is wrong with the arguments) pricing fails
\* with an ArbitrageError, nothing is computed after p and no grid is returned.
C6_ArbitrageError ==
    (Arbitrage /\ ValidLattice /\ time_steps >= 0) =>
        /\ pc = "raised"
        /\ error = "ArbitrageError"
        /\ stock_tree = Unset
        /\ option_tree = Unset
        /\ result = Unset

\* N < 0 or u <= 0 or d <= 0
BadBuilderInput ==
    \/ time_steps < 0
    \/ RLe(uptick, Zero)
    \/ RLe(downtick, Zero)

\* C7: when N < 0 or u <= 0 or d <= 0 no grid is returned and the failure of
\* the pricing is a ValidationError.
C7_BuilderValidationError ==
    BadBuilderInput =>
        /\ pc # "done"
        /\ result = Unset
        /\ (pc = "raised" /\ ~Degenerate) => error = "ValidationError"

====
